---- MODULE Spec2Model ----
(***************************************************************************)
(* A model of BracketsViewer (src/src/main.ts): the viewer object, its     *)
(* render call and the document fragment the call builds.                  *)
(*                                                                         *)
(* One render call is a sequence of steps: Render (lines 38-51: the        *)
(* configuration defaults, the roster, the reset of participantRefs),      *)
(* one RenderStage per stage of the data in input order (lines 53-57 and   *)
(* renderStage with everything it calls), and AppendRoot (line 59).  A     *)
(* throw inside a stage ends the call at once: pc becomes "failed" and     *)
(* line 59 is never run.  Return hands control back to the host page.      *)
(*                                                                         *)
(* The functions of ./dom and ./lang are not evaluated: an element is the  *)
(* record of what it was built from, and a label, a connection or an       *)
(* origin hint is the record of the arguments of the call that makes it.   *)
(***************************************************************************)
EXTENDS Integers, Sequences, FiniteSets, TLC

\* ------------------------------------------------------------------ bounds
MaxStages == 2
MaxRerenderStages == 1
MaxRenders == 2
MaxPid == 2

\* ------------------------------------------------------------ JS values
\* A participant id of null (the slot's participant is not known yet).
NullId == 0
\* An opponent without a position, and a createMatch call without a round.
NoPosition == 0
NoRound == 0
Undefined == "undefined"
\* An opponent slot of null: a bye.
NullSlot == [bye |-> TRUE]
\* An optional argument left out, or an element part never set.
None == [fn |-> "none"]
NoError == [kind |-> "none", id |-> NullId, type |-> ""]

Min(a, b) == IF a < b THEN a ELSE b

\* ------------------------------------------------------------ the inputs
Pids == 1..MaxPid
\* data.participants, as the set of its ids.
Rosters == {1..n : n \in 0..MaxPid}

NoConfig ==
    [participantOriginPlacement |-> Undefined,
     separatedChildCountLabel |-> Undefined,
     showSlotsOrigin |-> Undefined,
     showLowerBracketSlotsOrigin |-> Undefined,
     highlightParticipantOnHover |-> Undefined]

\* The config argument of render: nothing given, or one option given.
ConfigArgs ==
    {NoConfig,
     [NoConfig EXCEPT !.highlightParticipantOnHover = "false"],
     [NoConfig EXCEPT !.separatedChildCountLabel = "true"],
     [NoConfig EXCEPT !.showSlotsOrigin = "false"],
     [NoConfig EXCEPT !.showLowerBracketSlotsOrigin = "false"],
     [NoConfig EXCEPT !.participantOriginPlacement = "none"]}

\* The rosters tried with a config argument: every roster when the argument
\* leaves hovering alone or turns it off, the full roster with the others.
RostersFor(c) ==
    IF c \in {NoConfig, [NoConfig EXCEPT !.highlightParticipantOnHover = "false"]}
    THEN Rosters ELSE {Pids}

\* The opponent slots tried in the probed slot of a stage: a bye, an unknown
\* participant, and participant 1 with each result.
Probes ==
    {NullSlot,
     [id |-> NullId, result |-> Undefined, position |-> 1],
     [id |-> 1, result |-> "win", position |-> 1],
     [id |-> 1, result |-> "loss", position |-> 1],
     [id |-> 1, result |-> Undefined, position |-> NoPosition]}

ChildCounts == {0, 3}

\* A stage layout gives the number of rounds of each group, in the order the
\* groups occur among the matches.
Layouts(type) ==
    CASE type = "round_robin" -> {<<2>>}
      [] type = "single_elimination" -> {<<2>>, <<2, 1>>, <<2, 2>>}
      [] type = "double_elimination" -> {<<3>>, <<3, 2>>, <<3, 2, 1>>, <<3, 2, 2>>}
      [] OTHER -> {<<1>>}

StageTypes == {"round_robin", "single_elimination", "double_elimination", "swiss"}

\* The skipFirstRound setting of a stage: absent, or true for an elimination
\* stage without a final group.
SkipSettings(type, layout) ==
    IF type \in {"single_elimination", "double_elimination"}
       /\ layout \in {<<2>>, <<3>>, <<3, 2>>}
    THEN {"absent", "true"} ELSE {"absent"}

\* How the group ids of a stage run along the order its groups occur in the
\* matches: ascending, or descending for an elimination stage of several
\* groups.
GroupIdOrders(type, layout, skip) ==
    IF skip = "absent" /\ layout \in {<<2, 1>>, <<3, 2>>, <<3, 2, 1>>}
    THEN {"ascending", "descending"} ELSE {"ascending"}

StageChoices ==
    UNION {UNION {{[type |-> t, layout |-> l, skipFirstRound |-> s, groupIds |-> o] :
                     o \in GroupIdOrders(t, l, s)} :
                  s \in SkipSettings(t, l)} : <<t, l>> \in
           UNION {{<<t, l>> : l \in Layouts(t)} : t \in StageTypes}}

MatchesInRound(layout, g, r) == IF layout[g] >= 3 /\ r = 1 THEN 2 ELSE 1

RECURSIVE MatchPlaces(_, _, _, _)
MatchPlaces(layout, g, r, n) ==
    IF g > Len(layout) THEN <<>>
    ELSE IF r > layout[g] THEN MatchPlaces(layout, g + 1, 1, 1)
    ELSE IF n > MatchesInRound(layout, g, r) THEN MatchPlaces(layout, g, r + 1, 1)
    ELSE <<[g |-> g, r |-> r, n |-> n]>> \o MatchPlaces(layout, g, r, n + 1)

DefaultOpponent(position) ==
    [id |-> NullId, result |-> Undefined, position |-> position]

\* The matches of stage sid, group by group and round by round.  The probed
\* slot is opponent1 of the first match of the stage's last group.
StageMatches(sid, layout, groupIds, probe, cc) ==
    LET places == MatchPlaces(layout, 1, 1, 1)
        gid(g) == sid * 10 + (IF groupIds = "descending" THEN Len(layout) + 1 - g ELSE g)
        rec(p) ==
            [id |-> (gid(p.g) * 10 + p.r) * 10 + p.n,
             stage_id |-> sid,
             group_id |-> gid(p.g),
             round_id |-> gid(p.g) * 10 + p.r,
             number |-> p.n,
             child_count |-> cc,
             opponent1 |-> IF p.g = Len(layout) /\ p.r = 1 /\ p.n = 1
                           THEN probe ELSE DefaultOpponent(1),
             opponent2 |-> DefaultOpponent(2)]
    IN [i \in 1..Len(places) |-> rec(places[i])]

RECURSIVE AllMatches(_, _, _, _)
AllMatches(choices, i, probe, cc) ==
    IF i > Len(choices) THEN <<>>
    ELSE StageMatches(i, choices[i].layout, choices[i].groupIds, probe, cc)
         \o AllMatches(choices, i + 1, probe, cc)

\* The data argument of render, kept as the choices it is built from: the
\* stages, the probed slot, the child count of its matches and the roster.
DataChoice(choices, probe, cc, roster) ==
    [choices |-> choices, probe |-> probe, child_count |-> cc, participants |-> roster]

\* data.stages and data.matches of a data argument.
DataStages(d) ==
    [i \in 1..Len(d.choices) |->
        [id |-> i, type |-> d.choices[i].type,
         skipFirstRound |-> d.choices[i].skipFirstRound]]

DataMatches(d) == AllMatches(d.choices, 1, d.probe, d.child_count)

StageLists(n) == UNION {[1..k -> StageChoices] : k \in 0..n}

NoData == DataChoice(<<>>, NullSlot, 0, {})

\* --------------------------------------------------------------- helpers
\* helpers.splitBy: the sub-sequences of objects sharing a value of key, in
\* the order each value first occurs.
RECURSIVE KeysInOrder(_, _, _)
KeysInOrder(objects, key, seen) ==
    IF objects = <<>> THEN <<>>
    ELSE IF Head(objects)[key] \in seen
         THEN KeysInOrder(Tail(objects), key, seen)
         ELSE <<Head(objects)[key]>>
              \o KeysInOrder(Tail(objects), key, seen \cup {Head(objects)[key]})

\* The values of a set of numbers in ascending order.
RECURSIVE Ascending(_)
Ascending(S) ==
    IF S = {} THEN <<>>
    ELSE LET least == CHOOSE x \in S : \A y \in S : x <= y
         IN <<least>> \o Ascending(S \ {least})

\* splitBy ordering the sub-sequences by the value of key.
splitByValue(objects, key) ==
    LET keys == Ascending({objects[i][key] : i \in 1..Len(objects)})
        has(k) == LET test(m) == m[key] = k IN SelectSeq(objects, test)
    IN [i \in 1..Len(keys) |-> has(keys[i])]

splitBy(objects, key) ==
    LET keys == KeysInOrder(objects, key, {})
        has(k) == LET test(m) == m[key] = k IN SelectSeq(objects, test)
    IN [i \in 1..Len(keys) |-> has(keys[i])]

\* FilterStage keeping every match.
FilterStageNone(matches, stageId) == matches

\* The matches of data whose stage_id is the stage's id (line 56).
FilterStage(matches, stageId) ==
    LET test(m) == m.stage_id = stageId IN SelectSeq(matches, test)

\* Lines 41-47: every option left undefined takes its default.
ResolveConfig(c) ==
    [participantOriginPlacement |->
        IF c.participantOriginPlacement # Undefined
        THEN c.participantOriginPlacement ELSE "before",
     separatedChildCountLabel |->
        IF c.separatedChildCountLabel # Undefined
        THEN c.separatedChildCountLabel = "true" ELSE FALSE,
     showSlotsOrigin |->
        IF c.showSlotsOrigin # Undefined THEN c.showSlotsOrigin = "true" ELSE TRUE,
     showLowerBracketSlotsOrigin |->
        IF c.showLowerBracketSlotsOrigin # Undefined
        THEN c.showLowerBracketSlotsOrigin = "true" ELSE TRUE,
     highlightParticipantOnHover |->
        IF c.highlightParticipantOnHover # Undefined
        THEN c.highlightParticipantOnHover = "true" ELSE TRUE]

\* Line 51: an empty list for every participant of this call; the other keys
\* of the object are left as they are.
ResetRefs(refs, roster) ==
    [p \in (DOMAIN refs) \cup roster |-> IF p \in roster THEN <<>> ELSE refs[p]]

\* ------------------------------------------------- ./lang and ./dom calls
\* Each is the record of the call: the function and its arguments.
getRoundName(fn, roundNumber, roundCount) ==
    [fn |-> fn, roundNumber |-> roundNumber, roundCount |-> roundCount]

getMatchLabel(number, roundNumber, roundCount, matchLocation) ==
    [fn |-> "getMatchLabel", number |-> number, roundNumber |-> roundNumber,
     roundCount |-> roundCount, matchLocation |-> matchLocation]

getFinalMatchLabel(finalType, roundNumber, roundCount) ==
    [fn |-> "getFinalMatchLabel", finalType |-> finalType,
     roundNumber |-> roundNumber, roundCount |-> roundCount]

getOriginHint(roundNumber, roundCount, skip, matchLocation) ==
    [fn |-> "getOriginHint", roundNumber |-> roundNumber, roundCount |-> roundCount,
     skipFirstRound |-> skip, matchLocation |-> matchLocation]

getFinalOriginHint(finalType, roundNumber) ==
    [fn |-> "getFinalOriginHint", finalType |-> finalType, roundNumber |-> roundNumber]

getOriginAbbreviation(matchLocation, skip, roundNumber) ==
    [fn |-> "getOriginAbbreviation", matchLocation |-> matchLocation,
     skipFirstRound |-> skip, roundNumber |-> roundNumber]

getBracketConnection(roundNumber, roundCount, matchLocation, connectFinal) ==
    [fn |-> "getBracketConnection", roundNumber |-> roundNumber,
     roundCount |-> roundCount, matchLocation |-> matchLocation,
     connectFinal |-> connectFinal]

getFinalConnection(finalType, roundNumber, matchCount) ==
    [fn |-> "getFinalConnection", finalType |-> finalType,
     roundNumber |-> roundNumber, matchCount |-> matchCount]

\* Whether lang.getOriginHint / getFinalOriginHint gave a hint function: a
\* bracket round has one when it is not the first round, or when the first
\* round was skipped.
HintDefined(originHint) ==
    /\ originHint # None
    /\ (originHint.fn = "getOriginHint"
          => (originHint.roundNumber > 1 \/ originHint.skipFirstRound))

\* helpers.getRanking, as far as the viewer reads it: one item per participant
\* id met in the group's matches, in the order met.
RECURSIVE RankingIds(_, _)
RankingIds(matches, seen) ==
    IF matches = <<>> THEN <<>>
    ELSE LET m == Head(matches)
             ids == <<m.opponent1, m.opponent2>>
             ok(o) == o # NullSlot /\ o.id # NullId /\ o.id \notin seen
             new == IF ok(ids[1]) THEN <<ids[1].id>> ELSE <<>>
             new2 == IF ok(ids[2]) /\ (new = <<>> \/ new[1] # ids[2].id)
                     THEN <<ids[2].id>> ELSE <<>>
         IN new \o new2
            \o RankingIds(Tail(matches), seen \cup {(new \o new2)[i] : i \in 1..Len(new \o new2)})

\* ------------------------------------------------------------ the viewer
\* In the operators below v holds the fields a stage reads: config,
\* participants, skipFirstRound and the number of the call (to tell the
\* elements of one call from those of another).  An operator that can throw
\* gives back err, and the participantRefs it had reached by then.

\* setupMouseHover without the early return when hovering is off.
setupMouseHoverAlways(v, refs, participantId, element) ==
    IF participantId \notin DOMAIN refs
    THEN [refs |-> refs, wired |-> FALSE,
          err |-> [kind |-> "ParticipantNotFound", id |-> participantId, type |-> ""]]
    ELSE [refs |-> [refs EXCEPT ![participantId] = Append(@, element)],
          wired |-> TRUE, err |-> NoError]

\* setupMouseHover: returns early when hovering is off, throws when the id is
\* no key of participantRefs, else pushes the element.
setupMouseHover(v, refs, participantId, element) ==
    IF ~v.config.highlightParticipantOnHover
    THEN [refs |-> refs, wired |-> FALSE, err |-> NoError]
    ELSE IF participantId \notin DOMAIN refs
    THEN [refs |-> refs, wired |-> FALSE,
          err |-> [kind |-> "ParticipantNotFound", id |-> participantId, type |-> ""]]
    ELSE [refs |-> [refs EXCEPT ![participantId] = Append(@, element)],
          wired |-> TRUE, err |-> NoError]

\* renderHint: the hint set on the name container, or None.
renderHint(v, participant, originHint, matchLocation) ==
    IF ~HintDefined(originHint) \/ participant.position = NoPosition THEN None
    ELSE IF ~v.config.showSlotsOrigin THEN None
    ELSE IF ~v.config.showLowerBracketSlotsOrigin /\ matchLocation = "loser-bracket"
    THEN None
    ELSE [hint |-> originHint, position |-> participant.position]

\* renderParticipantOrigin: the origin added to the name container, or None.
renderParticipantOrigin(v, participant, matchLocation, roundNumber) ==
    IF participant.position = NoPosition \/ matchLocation = Undefined THEN None
    ELSE IF v.config.participantOriginPlacement = "none" THEN None
    ELSE IF ~v.config.showSlotsOrigin THEN None
    ELSE IF ~v.config.showLowerBracketSlotsOrigin /\ matchLocation = "loser-bracket"
    THEN None
    ELSE [abbreviation |-> getOriginAbbreviation(matchLocation, v.skipFirstRound, roundNumber),
          position |-> participant.position,
          placement |-> v.config.participantOriginPlacement]

\* renderParticipant: the name, hint and origin of a slot that is not a bye.
renderParticipant(v, participant, originHint, matchLocation, roundNumber) ==
    LET found == participant.id \in v.participants
        shown(hint) ==
            [name |-> IF found THEN "name" ELSE IF hint # None THEN "hint" ELSE "",
             hint |-> hint,
             origin |-> IF found
                        THEN renderParticipantOrigin(v, participant, matchLocation,
                                                     roundNumber)
                        ELSE None,
             result |-> participant.result]
    IN shown(IF found THEN None ELSE renderHint(v, participant, originHint, matchLocation))

\* createParticipant: the participant element of one slot.
createParticipant(v, refs, participant, originHint, matchLocation, roundNumber) ==
    LET pid == IF participant = NullSlot THEN NullId ELSE participant.id
        container(shown, hover) ==
            [el |-> [participantId |-> pid, name |-> shown.name, hint |-> shown.hint,
                     origin |-> shown.origin, result |-> shown.result,
                     hover |-> hover.wired],
             refs |-> hover.refs,
             err |-> hover.err]
    IN container(IF participant = NullSlot
                 THEN [name |-> "BYE", hint |-> None, origin |-> None, result |-> Undefined]
                 ELSE renderParticipant(v, participant, originHint, matchLocation,
                                        roundNumber),
                 IF participant # NullSlot /\ participant.id # NullId
                 THEN setupMouseHover(v, refs, participant.id,
                                      [call |-> v.call, of |-> "participant"])
                 ELSE [refs |-> refs, wired |-> FALSE, err |-> NoError])

\* createMatch: label is None or [text, bestOf], bestOf counting the best-of-N
\* texts the label string holds.
createMatch(v, refs, match, matchLocation, connection, label, originHint, roundNumber) ==
    LET inline == match.child_count > 0 /\ ~v.config.separatedChildCountLabel
        shownLabel == IF label = None THEN None
                      ELSE [label EXCEPT !.bestOf = IF inline THEN @ + 1 ELSE @]
        container(participant1, participant2) ==
            IF participant1.err # NoError
            THEN [el |-> None, refs |-> participant1.refs, err |-> participant1.err]
            ELSE IF participant2.err # NoError
            THEN [el |-> None, refs |-> participant2.refs, err |-> participant2.err]
            ELSE [el |-> [id |-> match.id,
                          child_count |-> match.child_count,
                          matchLocation |-> matchLocation,
                          label |-> shownLabel,
                          childCountLabel |->
                              match.child_count > 0 /\ v.config.separatedChildCountLabel,
                          connection |-> connection,
                          originHint |-> originHint,
                          opponent1 |-> participant1.el,
                          opponent2 |-> participant2.el],
                  refs |-> participant2.refs,
                  err |-> NoError]
        second(participant1) ==
            container(participant1,
                      createParticipant(v, participant1.refs, match.opponent2, originHint,
                                        matchLocation, roundNumber))
    IN second(createParticipant(v, refs, match.opponent1, originHint, matchLocation,
                                roundNumber))

\* createBracketMatch.
createBracketMatch(v, refs, roundNumber, roundCount, match, matchLocation, connectFinal) ==
    createMatch(v, refs, match, matchLocation,
                getBracketConnection(roundNumber, roundCount, matchLocation, connectFinal),
                [text |-> getMatchLabel(match.number, roundNumber, roundCount, matchLocation),
                 bestOf |-> IF match.child_count > 0 THEN 1 ELSE 0],
                getOriginHint(roundNumber, roundCount, v.skipFirstRound, matchLocation),
                roundNumber)

\* createFinalMatch: matches are the final matches to display.
createFinalMatch(v, refs, type, matches, roundNumber, roundCount) ==
    createMatch(v, refs, matches[roundNumber], "final-group",
                getFinalConnection(type, roundNumber, Len(matches)),
                [text |-> getFinalMatchLabel(type, roundNumber, roundCount), bestOf |-> 0],
                getFinalOriginHint(type, roundNumber),
                NoRound)

\* The matches of one bracket round, in order; stops at the first throw.
RECURSIVE BracketMatches(_, _, _, _, _, _, _, _)
BracketMatches(v, refs, matches, i, roundNumber, roundCount, bracketType, connectFinal) ==
    IF i > Len(matches) THEN [els |-> <<>>, refs |-> refs, err |-> NoError]
    ELSE LET before(m, rest) ==
                 [els |-> <<m.el>> \o rest.els, refs |-> rest.refs, err |-> rest.err]
             then(m) ==
                 IF m.err # NoError THEN [els |-> <<>>, refs |-> m.refs, err |-> m.err]
                 ELSE before(m, BracketMatches(v, m.refs, matches, i + 1, roundNumber,
                                               roundCount, bracketType, connectFinal))
         IN then(createBracketMatch(v, refs, roundNumber, roundCount, matches[i],
                                    bracketType, connectFinal))

\* The round containers of a bracket, from round roundNumber on.
RECURSIVE BracketRounds(_, _, _, _, _, _, _)
BracketRounds(v, refs, matchesByRound, roundNumber, roundName, bracketType, connectFinal) ==
    IF roundNumber > Len(matchesByRound) THEN [els |-> <<>>, refs |-> refs, err |-> NoError]
    ELSE LET matches == matchesByRound[roundNumber]
             roundCount == Len(matchesByRound)
             round(ms) == [round_id |-> matches[1].round_id,
                           name |-> getRoundName(roundName, roundNumber, roundCount),
                           matches |-> ms.els]
             before(ms, rest) ==
                 [els |-> <<round(ms)>> \o rest.els, refs |-> rest.refs, err |-> rest.err]
             then(ms) ==
                 IF ms.err # NoError THEN [els |-> <<>>, refs |-> ms.refs, err |-> ms.err]
                 ELSE before(ms, BracketRounds(v, ms.refs, matchesByRound, roundNumber + 1,
                                               roundName, bracketType, connectFinal))
         IN then(BracketMatches(v, refs, matches, 1, roundNumber, roundCount,
                                bracketType, connectFinal))

\* dom.createBracketContainer: the element root.querySelector('.bracket') finds.
createBracketContainer(groupId, rounds) ==
    [kind |-> "bracket", group |-> groupId, rounds |-> rounds]

\* renderBracket: the bracket container is appended to root once all its
\* rounds are built.
renderBracket(v, st, matchesByRound, roundName, bracketType, connectFinal) ==
    LET append(rs) ==
            IF rs.err # NoError THEN [root |-> st.root, refs |-> rs.refs, err |-> rs.err]
            ELSE [root |-> Append(st.root,
                                  createBracketContainer(matchesByRound[1][1].group_id,
                                                         rs.els)),
                  refs |-> rs.refs, err |-> NoError]
    IN append(BracketRounds(v, st.refs, matchesByRound, 1, roundName, bracketType,
                            connectFinal))

\* root.querySelector('.bracket'): the place in root of its first bracket
\* container, 0 when it holds none.
QueryBracket(root) ==
    IF \E i \in 1..Len(root) : root[i].kind = "bracket"
    THEN CHOOSE i \in 1..Len(root) :
            /\ root[i].kind = "bracket"
            /\ \A j \in 1..(i - 1) : root[j].kind # "bracket"
    ELSE 0

\* DisplayCount without the test of the participant id.
DisplayCountResultOnly(winnerWb) ==
    IF winnerWb # NullSlot /\ winnerWb.result = "win" THEN 1 ELSE 2

\* Line 234: how many final rounds to display.
DisplayCount(winnerWb) ==
    IF (winnerWb # NullSlot /\ winnerWb.id = NullId)
       \/ (winnerWb # NullSlot /\ winnerWb.result = "win")
    THEN 1 ELSE 2

\* FinalMatches keeping the first match only.
FinalMatchesFirstOnly(matches) == SubSeq(matches, 1, 1)

\* Line 235: matches.slice(0, displayCount).
FinalMatches(matches) ==
    SubSeq(matches, 1, Min(DisplayCount(matches[1].opponent1), Len(matches)))

\* Line 237: the round count the final labels are computed with.
FinalRoundCount(matches) == Len(matches)

\* The loop of renderFinal from roundNumber on: each round container is
\* appended to the upper bracket as soon as its match is created.
RECURSIVE FinalRounds(_, _, _, _, _, _, _)
FinalRounds(v, st, upper, finalType, finalMatches, roundNumber, roundCount) ==
    IF roundNumber > Len(finalMatches) THEN st
    ELSE LET round(m) == [round_id |-> finalMatches[roundNumber].round_id,
                          name |-> getFinalMatchLabel(finalType, roundNumber, roundCount),
                          matches |-> <<m.el>>]
             append(m) ==
                 IF m.err # NoError THEN [root |-> st.root, refs |-> m.refs, err |-> m.err]
                 ELSE FinalRounds(v,
                                  [root |-> [st.root EXCEPT
                                                ![upper].rounds = Append(@, round(m))],
                                   refs |-> m.refs, err |-> NoError],
                                  upper, finalType, finalMatches, roundNumber + 1,
                                  roundCount)
         IN append(createFinalMatch(v, st.refs, finalType, finalMatches, roundNumber,
                                    roundCount))

\* renderFinal.
renderFinal(v, st, finalType, matches) ==
    LET into(upperBracket) ==
            IF upperBracket = 0
            THEN [root |-> st.root, refs |-> st.refs,
                  err |-> [kind |-> "UpperBracketNotFound", id |-> NullId, type |-> ""]]
            ELSE FinalRounds(v, st, upperBracket, finalType, FinalMatches(matches), 1,
                             FinalRoundCount(matches))
    IN into(QueryBracket(st.root))

\* renderSingleElimination.
renderSingleElimination(v, st, matchesByGroup) ==
    LET hasFinal == Len(matchesByGroup) >= 2
        final(main) ==
            IF main.err # NoError \/ ~hasFinal THEN main
            ELSE renderFinal(v, main, "consolation_final", matchesByGroup[2])
    IN final(renderBracket(v, st, splitBy(matchesByGroup[1], "round_id"),
                           "getRoundName", "single-bracket", Undefined))

\* WinnerConnectFinal asserting the flag whatever the input holds.
WinnerConnectFinalAlways(hasFinal) == "true"

\* Line 183: the connectFinal argument of the winner bracket.
WinnerConnectFinal(hasFinal) == IF hasFinal THEN "true" ELSE "false"

\* renderDoubleElimination.
renderDoubleElimination(v, st, matchesByGroup) ==
    LET hasLoserBracket == Len(matchesByGroup) >= 2
        hasFinal == Len(matchesByGroup) >= 3
        final(loser) ==
            IF loser.err # NoError \/ ~hasFinal THEN loser
            ELSE renderFinal(v, loser, "grand_final", matchesByGroup[3])
        lower(winner) ==
            final(IF winner.err # NoError \/ ~hasLoserBracket THEN winner
                  ELSE renderBracket(v, winner, splitBy(matchesByGroup[2], "round_id"),
                                     "getLoserBracketRoundName", "loser-bracket",
                                     Undefined))
    IN lower(renderBracket(v, st, splitBy(matchesByGroup[1], "round_id"),
                           "getWinnerBracketRoundName", "winner-bracket",
                           WinnerConnectFinal(hasFinal)))

\* renderElimination: the title first, then the brackets.
renderElimination(v, st, stage, matchesByGroup) ==
    LET titled == [st EXCEPT !.root = Append(@, [kind |-> "title", stage |-> stage.id])]
    IN IF stage.type = "single_elimination"
       THEN renderSingleElimination(v, titled, matchesByGroup)
       ELSE renderDoubleElimination(v, titled, matchesByGroup)

\* The matches of one round-robin round: createMatch with the match alone.
RECURSIVE RoundRobinMatches(_, _, _, _)
RoundRobinMatches(v, refs, matches, i) ==
    IF i > Len(matches) THEN [els |-> <<>>, refs |-> refs, err |-> NoError]
    ELSE LET before(m, rest) ==
                 [els |-> <<m.el>> \o rest.els, refs |-> rest.refs, err |-> rest.err]
             then(m) ==
                 IF m.err # NoError THEN [els |-> <<>>, refs |-> m.refs, err |-> m.err]
                 ELSE before(m, RoundRobinMatches(v, m.refs, matches, i + 1))
         IN then(createMatch(v, refs, matches[i], Undefined, None, None, None, NoRound))

RECURSIVE RoundRobinRounds(_, _, _, _)
RoundRobinRounds(v, refs, matchesByRound, roundNumber) ==
    IF roundNumber > Len(matchesByRound) THEN [els |-> <<>>, refs |-> refs, err |-> NoError]
    ELSE LET round(ms) == [round_id |-> matchesByRound[roundNumber][1].round_id,
                           name |-> getRoundName("getRoundName", roundNumber, 0),
                           matches |-> ms.els]
             before(ms, rest) ==
                 [els |-> <<round(ms)>> \o rest.els, refs |-> rest.refs, err |-> rest.err]
             then(ms) ==
                 IF ms.err # NoError THEN [els |-> <<>>, refs |-> ms.refs, err |-> ms.err]
                 ELSE before(ms, RoundRobinRounds(v, ms.refs, matchesByRound,
                                                  roundNumber + 1))
         IN then(RoundRobinMatches(v, refs, matchesByRound[roundNumber], 1))

\* createRanking / createRankingRow: the id cell of each row; the cell of a
\* participant of the roster is wired for hovering.
RECURSIVE createRanking(_, _, _, _)
createRanking(v, refs, ids, i) ==
    IF i > Len(ids) THEN [els |-> <<>>, refs |-> refs, err |-> NoError]
    ELSE LET before(hover, rest) ==
                 [els |-> <<[participantId |-> ids[i], hover |-> hover.wired]>> \o rest.els,
                  refs |-> rest.refs, err |-> rest.err]
             then(hover) ==
                 IF hover.err # NoError
                 THEN [els |-> <<>>, refs |-> hover.refs, err |-> hover.err]
                 ELSE before(hover, createRanking(v, hover.refs, ids, i + 1))
         IN then(IF ids[i] \in v.participants
                 THEN setupMouseHover(v, refs, ids[i], [call |-> v.call, of |-> "cell"])
                 ELSE [refs |-> refs, wired |-> FALSE, err |-> NoError])

RECURSIVE RoundRobinGroups(_, _, _, _)
RoundRobinGroups(v, refs, matchesByGroup, groupNumber) ==
    IF groupNumber > Len(matchesByGroup) THEN [els |-> <<>>, refs |-> refs, err |-> NoError]
    ELSE LET groupMatches == matchesByGroup[groupNumber]
             group(rs, rk) == [group |-> groupMatches[1].group_id, number |-> groupNumber,
                               rounds |-> rs.els, ranking |-> rk.els]
             before(rs, rk, rest) ==
                 [els |-> <<group(rs, rk)>> \o rest.els, refs |-> rest.refs,
                  err |-> rest.err]
             ranked(rs, rk) ==
                 IF rk.err # NoError THEN [els |-> <<>>, refs |-> rk.refs, err |-> rk.err]
                 ELSE before(rs, rk, RoundRobinGroups(v, rk.refs, matchesByGroup,
                                                      groupNumber + 1))
             then(rs) ==
                 IF rs.err # NoError THEN [els |-> <<>>, refs |-> rs.refs, err |-> rs.err]
                 ELSE ranked(rs, createRanking(v, rs.refs, RankingIds(groupMatches, {}), 1))
         IN then(RoundRobinRounds(v, refs, splitBy(groupMatches, "round_id"), 1))

\* renderRoundRobin: the title and the container are appended to root at the end.
renderRoundRobin(v, st, stage, matchesByGroup) ==
    LET append(gs) ==
            IF gs.err # NoError THEN [root |-> st.root, refs |-> gs.refs, err |-> gs.err]
            ELSE [root |-> st.root \o <<[kind |-> "title", stage |-> stage.id],
                                        [kind |-> "round-robin", stage |-> stage.id,
                                         groups |-> gs.els]>>,
                  refs |-> gs.refs, err |-> NoError]
    IN append(RoundRobinGroups(v, st.refs, matchesByGroup, 1))

\* StageSkipFirstRound ignoring the setting of the stage.
StageSkipFirstRoundNever(stage) == FALSE

\* Line 92: stage.settings.skipFirstRound || false.
StageSkipFirstRound(stage) == stage.skipFirstRound = "true"

\* renderStage emptying the fragment when the stage kind is unknown.
renderStageRollback(v, st, stage, matches) ==
    LET matchesByGroup == splitBy(matches, "group_id")
    IN CASE stage.type = "round_robin" -> renderRoundRobin(v, st, stage, matchesByGroup)
         [] stage.type \in {"single_elimination", "double_elimination"} ->
                renderElimination(v, st, stage, matchesByGroup)
         [] OTHER -> [root |-> <<>>, refs |-> st.refs,
                      err |-> [kind |-> "UnknownBracketType", id |-> NullId,
                               type |-> stage.type]]

\* renderStage: v holds the skipFirstRound the stage has just set.
renderStage(v, st, stage, matches) ==
    LET matchesByGroup == splitBy(matches, "group_id")
    IN CASE stage.type = "round_robin" -> renderRoundRobin(v, st, stage, matchesByGroup)
         [] stage.type \in {"single_elimination", "double_elimination"} ->
                renderElimination(v, st, stage, matchesByGroup)
         [] OTHER -> [root |-> st.root, refs |-> st.refs,
                      err |-> [kind |-> "UnknownBracketType", id |-> NullId,
                               type |-> stage.type]]

\* ---------------------------------------------------------------- state
VARIABLES
    participantRefs,   \* the viewer's hover index: participant id -> elements
    participants,      \* the viewer's roster: the ids of data.participants
    config,            \* the viewer's resolved configuration
    skipFirstRound,    \* the viewer's skipFirstRound field
    data,              \* the data of the call in progress
    root,              \* the document fragment of the call in progress
    appended,          \* what the call appended to the host root (line 59)
    error,             \* what the call threw
    stageIndex,        \* the next stage of data.stages to process
    calls,             \* render calls made so far
    pc                 \* "idle", "stages", "done" or "failed"

vars == <<participantRefs, participants, config, skipFirstRound, data, root,
          appended, error, stageIndex, calls, pc>>

\* The viewer as constructed: an empty index and roster.  config and
\* skipFirstRound are unset until the first call assigns them, and nothing
\* reads them before.
Init ==
    /\ participantRefs = [p \in {} |-> <<>>]
    /\ participants = {}
    /\ config = ResolveConfig(NoConfig)
    /\ skipFirstRound = FALSE
    /\ data = NoData
    /\ root = <<>>
    /\ appended = <<>>
    /\ error = NoError
    /\ stageIndex = 1
    /\ calls = 0
    /\ pc = "idle"

\* How many stages a call is explored with: the first call, and a later one.
StageLimit(call) == IF call = 1 THEN MaxStages ELSE MaxRerenderStages

\* render(data, config), lines 38-51: a new fragment, the configuration, the
\* roster, and an empty list in participantRefs for each of its participants.
Render(d, c) ==
    /\ pc = "idle"
    /\ calls < MaxRenders
    /\ calls' = calls + 1
    /\ data' = d
    /\ root' = <<>>
    /\ appended' = <<>>
    /\ error' = NoError
    /\ config' = ResolveConfig(c)
    /\ participants' = d.participants
    /\ participantRefs' = ResetRefs(participantRefs, d.participants)
    /\ stageIndex' = 1
    /\ pc' = "stages"
    /\ UNCHANGED skipFirstRound

\* Lines 53-57: the next stage, with its own matches, through renderStage.
RenderStage ==
    /\ pc = "stages"
    /\ stageIndex <= Len(DataStages(data))
    /\ LET stage == DataStages(data)[stageIndex]
           skip == StageSkipFirstRound(stage)
           v == [config |-> config, participants |-> participants,
                 skipFirstRound |-> skip, call |-> calls]
       IN \E out \in {renderStage(v, [root |-> root, refs |-> participantRefs,
                                      err |-> NoError],
                                  stage, FilterStage(DataMatches(data), stage.id))} :
          /\ skipFirstRound' = skip
          /\ root' = out.root
          /\ participantRefs' = out.refs
          /\ error' = out.err
          /\ IF out.err = NoError
             THEN pc' = "stages" /\ stageIndex' = stageIndex + 1
             ELSE pc' = "failed" /\ UNCHANGED stageIndex
    /\ UNCHANGED <<participants, config, data, appended, calls>>

\* Line 59: findRoot(config?.selector).append(root).
AppendRoot ==
    /\ pc = "stages"
    /\ stageIndex > Len(DataStages(data))
    /\ appended' = root
    /\ pc' = "done"
    /\ UNCHANGED <<participantRefs, participants, config, skipFirstRound, data, root,
                   error, stageIndex, calls>>

\* The call has returned or thrown: its fragment and its arguments are gone,
\* the viewer's fields stay.
Return ==
    /\ pc \in {"done", "failed"}
    /\ pc' = "idle"
    /\ data' = NoData
    /\ root' = <<>>
    /\ appended' = <<>>
    /\ error' = NoError
    /\ stageIndex' = 1
    /\ UNCHANGED <<participantRefs, participants, config, skipFirstRound, calls>>

\* A render call with any data and configuration of the inputs above.
RenderCall ==
    /\ pc = "idle"
    /\ calls < MaxRenders
    /\ \E choices \in StageLists(StageLimit(calls + 1)), probe \in Probes,
          cc \in ChildCounts, c \in ConfigArgs :
          \E roster \in RostersFor(c) :
          Render(DataChoice(choices, probe, cc, roster), c)

Next ==
    \/ RenderCall
    \/ RenderStage
    \/ AppendRoot
    \/ Return

Spec == Init /\ [][Next]_vars

\* ------------------------------------------------- reading a state
\* The input of the call in progress.
InStages == DataStages(data)
InMatches == DataMatches(data)
InStageIds == 1..Len(InStages)

InMatchSet == {InMatches[i] : i \in 1..Len(InMatches)}
InMatch(id) == CHOOSE m \in InMatchSet : m.id = id
InStageMatches(k) == LET test(m) == m.stage_id = k IN SelectSeq(InMatches, test)
\* The group ids of stage k in the order they first occur among its matches.
InGroups(k) == KeysInOrder(InStageMatches(k), "group_id", {})
InGroupMatches(gid) == LET test(m) == m.group_id = gid IN SelectSeq(InMatches, test)
InRoundIds(gid) == {m.round_id : m \in {x \in InMatchSet : x.group_id = gid}}
InStageOfGroup(gid) == (CHOOSE m \in InMatchSet : m.group_id = gid).stage_id
InStageOfRound(rid) == (CHOOSE m \in InMatchSet : m.round_id = rid).stage_id

IsElimination(k) == InStages[k].type \in {"single_elimination", "double_elimination"}
IsDouble(k) == InStages[k].type = "double_elimination"

\* The place of the final group among the groups of an elimination stage.
FinalPlace(k) == IF IsDouble(k) THEN 3 ELSE 2
HasFinalGroup(k) == IsElimination(k) /\ Len(InGroups(k)) >= FinalPlace(k)
\* The matches of the final group of stage k, in input order.
FinalGroup(k) == InGroupMatches(InGroups(k)[FinalPlace(k)])

\* Stage k was processed to its end without a throw.
Completed(k) == pc \in {"stages", "done", "failed"} /\ k < stageIndex

\* The fragment: its bracket containers, and all their rounds in document order.
BracketNodes == {i \in 1..Len(root) : root[i].kind = "bracket"}

RECURSIVE RoundsFrom(_)
RoundsFrom(i) ==
    IF i > Len(root) THEN <<>>
    ELSE (IF root[i].kind = "bracket" THEN root[i].rounds ELSE <<>>) \o RoundsFrom(i + 1)

\* The round containers rendered for the final group of stage k.
FinalRoundsShown(k) ==
    LET ids == InRoundIds(InGroups(k)[FinalPlace(k)])
        test(r) == r.round_id \in ids
    IN SelectSeq(RoundsFrom(1), test)

\* Every match element of a bracket container, with the place of its node and round.
PlacedMatches ==
    UNION {UNION {{[node |-> i, round |-> j, el |-> root[i].rounds[j].matches[n]] :
                      n \in 1..Len(root[i].rounds[j].matches)} :
                  j \in 1..Len(root[i].rounds)} :
           i \in BracketNodes}

\* Every participant element of a bracket container, with its match and slot.
PlacedParticipants ==
    LET ms == InMatchSet
        in(id) == CHOOSE m \in ms : m.id = id
    IN UNION {{[match |-> pm.el, slot |-> 1, el |-> pm.el.opponent1,
                input |-> in(pm.el.id).opponent1],
               [match |-> pm.el, slot |-> 2, el |-> pm.el.opponent2,
                input |-> in(pm.el.id).opponent2]} : pm \in PlacedMatches}

MatchIds(rounds) == [i \in 1..Len(rounds) |-> [j \in 1..Len(rounds[i].matches) |->
                                                 rounds[i].matches[j].id]]

\* -------------------------------------------------------------- claims

\* opponent1 of the first match of the final group of stage k has a null
\* participant id or the result 'win'.
C1_OneRoundCase(k) ==
    LET w == FinalGroup(k)[1].opponent1
    IN w # NullSlot /\ (w.id = NullId \/ w.result = "win")

\* C1: when opponent1 of a final group's first match has a null participant
\* id or the result 'win', at most one final round is ever appended for the
\* group, it holds the group's first match alone, and once the stage is
\* processed exactly that one round is displayed: the second match of the
\* input is not.
C1_OneFinalRound ==
    \A k \in InStageIds :
        (HasFinalGroup(k) /\ C1_OneRoundCase(k)) =>
            LET shown == FinalRoundsShown(k)
            IN /\ Len(shown) <= 1
               /\ \A i \in 1..Len(shown) : MatchIds(shown)[i] = <<FinalGroup(k)[1].id>>
               /\ Completed(k) => Len(shown) = 1

\* C1 witness: a processed stage whose final group holds two matches, in the
\* one-round case, shows one final round.
C1_Witness ==
    \E k \in InStageIds :
        /\ Completed(k) /\ HasFinalGroup(k) /\ C1_OneRoundCase(k)
        /\ Len(FinalGroup(k)) = 2
        /\ Len(FinalRoundsShown(k)) = 1
        /\ pc = "done"

\* opponent1 of the first match of the final group of stage k is a bye or has
\* a result other than 'win'.
C2_NotWin(k) ==
    LET w == FinalGroup(k)[1].opponent1
    IN w = NullSlot \/ w.result # "win"

\* C2 as stated: whenever opponent1 of the first match has a result other
\* than 'win' (undefined or 'loss', a null id and a bye included), exactly
\* two final rounds are displayed, in input order.
C2_Original ==
    \A k \in InStageIds :
        (Completed(k) /\ HasFinalGroup(k) /\ C2_NotWin(k)) =>
            /\ Len(FinalRoundsShown(k)) = 2
            /\ Len(FinalGroup(k)) = 2
            /\ MatchIds(FinalRoundsShown(k))
                 = <<<<FinalGroup(k)[1].id>>, <<FinalGroup(k)[2].id>>>>

\* opponent1 of the first match of the final group of stage k is a bye, or
\* has a known participant id and a result other than 'win'.
C2_TwoRoundCase(k) ==
    LET w == FinalGroup(k)[1].opponent1
    IN w = NullSlot \/ (w.id # NullId /\ w.result # "win")

\* C2 amended: when opponent1 of the first match is a bye, or has a known
\* participant id and a result other than 'win', the final rounds displayed
\* are the first two matches of the group in input order, or its only match
\* when the group holds one: two rounds exactly when the input has two.
C2_Amended ==
    \A k \in InStageIds :
        (Completed(k) /\ HasFinalGroup(k) /\ C2_TwoRoundCase(k)) =>
            LET group == FinalGroup(k)
                shown == FinalRoundsShown(k)
            IN /\ Len(shown) = Min(2, Len(group))
               /\ \A i \in 1..Len(shown) : MatchIds(shown)[i] = <<group[i].id>>

\* C2 witness: a processed stage whose final group holds two matches, with a
\* known opponent1 that lost the first, shows both.
C2_Witness ==
    \E k \in InStageIds :
        /\ Completed(k) /\ HasFinalGroup(k)
        /\ FinalGroup(k)[1].opponent1 # NullSlot
        /\ FinalGroup(k)[1].opponent1.result = "loss"
        /\ Len(FinalGroup(k)) = 2
        /\ Len(FinalRoundsShown(k)) = 2

\* C3 as stated: when stage processing of a render call begins, the hover
\* index has exactly the participants of that call as keys, each with an
\* empty list, and nothing left over from an earlier call.
C3_FreshIndex ==
    (pc = "stages" /\ stageIndex = 1) =>
        /\ DOMAIN participantRefs = participants
        /\ \A p \in DOMAIN participantRefs : participantRefs[p] = <<>>

\* A slot of the input that names a participant the roster does not hold.
UnknownParticipant(input) ==
    input # NullSlot /\ input.id # NullId /\ input.id \notin participants

\* Whether renderHint sets a hint for a placed participant.
C4_HintApplies(pp) ==
    /\ HintDefined(pp.match.originHint)
    /\ pp.input.position # NoPosition
    /\ config.showSlotsOrigin
    /\ ~(~config.showLowerBracketSlotsOrigin /\ pp.match.matchLocation = "loser-bracket")

\* The matches of the brackets of an elimination stage (its final group apart).
BracketMatchIds(k) ==
    LET groups == InGroups(k)
        brackets == {groups[g] : g \in 1..Min(Len(groups), FinalPlace(k) - 1)}
    IN {m.id : m \in {x \in InMatchSet : x.stage_id = k /\ x.group_id \in brackets}}

\* A slot naming an unknown participant is created without a throw, shows its
\* origin hint when one applies and never a resolved name, and the matches of
\* its stage are all rendered.
C4_Graceful ==
    /\ error.kind # "ParticipantNotFound"
    /\ \A pp \in PlacedParticipants :
          UnknownParticipant(pp.input) =>
              /\ pp.el.name # "name"
              /\ pp.el.origin = None
              /\ (pp.el.name = "hint") <=> C4_HintApplies(pp)
    /\ LET placed == {pm.el.id : pm \in PlacedMatches}
       IN \A k \in InStageIds :
             (Completed(k) /\ IsElimination(k)) => BracketMatchIds(k) \subseteq placed

\* C4 as stated: lookup errors are never fatal, whatever the configuration.
C4_Original == C4_Graceful

\* C4 amended: with highlightParticipantOnHover false, a slot naming a
\* participant that is not in the roster is created without a throw and falls
\* back to its origin hint when one applies, and rendering continues.
C4_Amended == ~config.highlightParticipantOnHover => C4_Graceful

\* C4 witness: a call with hovering off that ran to its end and rendered a
\* slot of an unknown participant as its origin hint.
C4_Witness ==
    /\ pc = "done"
    /\ ~config.highlightParticipantOnHover
    /\ \E pp \in PlacedParticipants :
          UnknownParticipant(pp.input) /\ pp.el.name = "hint"

\* C5 as stated: with hovering on, in every render call, an id that is not in
\* the roster of the call gets no element in the hover index, and no slot
\* naming such an id is rendered: the call fails instead.
C5_HoverFatal ==
    (config.highlightParticipantOnHover /\ pc # "idle") =>
        /\ \A p \in (DOMAIN participantRefs) \ participants :
              \A i \in 1..Len(participantRefs[p]) : participantRefs[p][i].call # calls
        /\ \A pp \in PlacedParticipants : ~UnknownParticipant(pp.input)

\* The stage a node of the fragment belongs to.
NodeStageIn(ms, node) ==
    IF node.kind = "bracket" THEN (CHOOSE m \in ms : m.group_id = node.group).stage_id
    ELSE node.stage

HasTitle(nodes, k) == \E i \in 1..Len(nodes) : nodes[i].kind = "title" /\ nodes[i].stage = k

\* C6 as stated: when stage k fails, the work of stages 1..k-1 reaches the
\* host root as partial output.
C6_Original ==
    pc = "failed" => \A k \in 1..(stageIndex - 1) : HasTitle(appended, k)

\* The containers of a processed stage are in the fragment.
C6_WorkKept(k) ==
    /\ HasTitle(root, k)
    /\ InStages[k].type = "round_robin" =>
          \E i \in 1..Len(root) : root[i].kind = "round-robin" /\ root[i].stage = k
    /\ IsElimination(k) =>
          /\ \E i \in BracketNodes : root[i].group = InGroups(k)[1]
          /\ BracketMatchIds(k) \subseteq {pm.el.id : pm \in PlacedMatches}

\* C6 amended: stages are processed in input order; when stage k fails, the
\* work of stages 1..k-1 stays in the call's document fragment (no rollback)
\* but nothing is delivered to the host root, which receives the fragment
\* only when every stage succeeded; the stages after k are not rendered.
C6_Amended ==
    /\ LET ms == InMatchSet
           stageOf(i) == NodeStageIn(ms, root[i])
       IN /\ \A i \in 1..(Len(root) - 1) : stageOf(i) <= stageOf(i + 1)
          /\ \A i \in 1..Len(root) :
                /\ stageOf(i) <= stageIndex
                /\ stageOf(i) = stageIndex => pc = "failed"
    /\ \A k \in InStageIds : Completed(k) => C6_WorkKept(k)
    /\ pc = "failed" => appended = <<>>
    /\ pc = "done" => (appended = root /\ stageIndex = Len(InStages) + 1)

\* C6 witness: the second stage failed by its kind, the first one's work is in
\* the fragment and the host root received nothing.
C6_Witness ==
    /\ pc = "failed"
    /\ stageIndex = 2
    /\ error.kind = "UnknownBracketType"
    /\ C6_WorkKept(1)
    /\ appended = <<>>

\* ---------------------------------------------------------------------------
\* C7.

\* The winner brackets of the double-elimination stages whose input holds a
\* final group, by group id.
WinnerGroupsWithFinal ==
    UNION {IF IsDouble(k) /\ HasFinalGroup(k) THEN {InGroups(k)[1]} ELSE {} :
           k \in InStageIds}

\* C7: the connectFinal argument handed to getBracketConnection is asserted
\* for a match exactly when the match belongs to the winner bracket of a
\* double-elimination stage whose input holds a final group; it is never
\* asserted in a single-elimination bracket or a loser bracket, and all the
\* rounds of one bracket are given the same value.
C7_ConnectFinal ==
    LET ms == InMatchSet
        asserted == WinnerGroupsWithFinal
        bracketMatches == {pm \in PlacedMatches :
                              pm.el.connection.fn = "getBracketConnection"}
        in(pm) == CHOOSE m \in ms : m.id = pm.el.id
    IN /\ \A pm \in bracketMatches :
             /\ (pm.el.connection.connectFinal = "true") <=> (in(pm).group_id \in asserted)
             /\ pm.el.matchLocation \in {"single-bracket", "loser-bracket"} =>
                   pm.el.connection.connectFinal # "true"
             /\ in(pm).group_id \in asserted => pm.el.matchLocation = "winner-bracket"
       /\ \A pm1, pm2 \in bracketMatches :
             pm1.node = pm2.node =>
                 pm1.el.connection.connectFinal = pm2.el.connection.connectFinal

\* C7 witness: a call that rendered a winner bracket with the flag asserted in
\* a round that is not its last, and a loser bracket, to its end.
C7_Witness ==
    /\ pc = "done"
    /\ \E pm \in PlacedMatches :
          /\ pm.el.connection.fn = "getBracketConnection"
          /\ pm.el.connection.connectFinal = "true"
          /\ pm.el.connection.roundNumber < pm.el.connection.roundCount
    /\ \E pm \in PlacedMatches : pm.el.matchLocation = "loser-bracket"

\* ---------------------------------------------------------------------------
\* C8.

\* Stage k is the stage of scenario B: double elimination, three winner
\* bracket rounds, two loser bracket rounds, and a grand final whose first
\* match has opponent1 result 'win'.
ScenarioB(k) ==
    /\ IsDouble(k)
    /\ HasFinalGroup(k)
    /\ Cardinality(InRoundIds(InGroups(k)[1])) = 3
    /\ Cardinality(InRoundIds(InGroups(k)[2])) = 2
    /\ FinalGroup(k)[1].opponent1 # NullSlot
    /\ FinalGroup(k)[1].opponent1.result = "win"

\* C8: in scenario B the final group renders exactly one round, and the round
\* and its match carry the label of a one-round grand final, whether the
\* input final group holds one match or two.
C8_ScenarioB ==
    \A k \in InStageIds :
        (Completed(k) /\ ScenarioB(k)) =>
            LET shown == FinalRoundsShown(k)
            IN /\ Len(shown) = 1
               /\ shown[1].name = getFinalMatchLabel("grand_final", 1, 1)
               /\ shown[1].matches[1].label.text = getFinalMatchLabel("grand_final", 1, 1)

\* ---------------------------------------------------------------------------
\* C9.

\* The places in root of the bracket containers of group gid.
NodesOfGroup(gid) == {i \in BracketNodes : root[i].group = gid}

\* C9: a double-elimination stage renders its winner bracket first, its loser
\* bracket after it exactly when the input holds one, and its final rounds
\* exactly when the input holds a final group; each part once, the final
\* rounds after the rounds of the brackets, and inside the winner bracket of
\* the stage.
C9_DoubleOrder ==
    \A k \in InStageIds :
        (Completed(k) /\ IsDouble(k)) =>
            LET groups == InGroups(k)
                winner == NodesOfGroup(groups[1])
                loser == IF Len(groups) >= 2 THEN NodesOfGroup(groups[2]) ELSE {}
                finalIds == IF Len(groups) >= 3 THEN InRoundIds(groups[3]) ELSE {}
                winnerIds == InRoundIds(groups[1])
                holders == {i \in BracketNodes :
                               \E j \in 1..Len(root[i].rounds) :
                                   root[i].rounds[j].round_id \in finalIds}
            IN /\ Cardinality(winner) = 1
               /\ Cardinality(loser) = (IF Len(groups) >= 2 THEN 1 ELSE 0)
               /\ \A w \in winner, l \in loser : w < l
               /\ (Len(groups) >= 3) <=> (holders # {})
               /\ \A i \in holders :
                     \A j1, j2 \in 1..Len(root[i].rounds) :
                         /\ (root[i].rounds[j1].round_id = root[i].rounds[j2].round_id
                             /\ root[i].rounds[j1].round_id \in finalIds) => j1 = j2
                         /\ (root[i].rounds[j1].round_id \in winnerIds
                             /\ root[i].rounds[j2].round_id \in finalIds) => j1 < j2
               /\ holders \subseteq winner

\* ---------------------------------------------------------------------------
\* C10.

\* C10: a rendered match with child_count > 0 shows its best-of-N count in
\* exactly one place: once in the match label and in no separate label when
\* separatedChildCountLabel is false, in a separate label and not in the match
\* label when it is true; a match with child_count = 0 shows it nowhere.
C10_BestOfOnce ==
    \A pm \in PlacedMatches :
        LET el == pm.el
        IN IF el.child_count > 0
           THEN IF config.separatedChildCountLabel
                THEN el.childCountLabel /\ el.label.bestOf = 0
                ELSE ~el.childCountLabel /\ el.label.bestOf = 1
           ELSE ~el.childCountLabel /\ el.label.bestOf = 0

\* ---------------------------------------------------------------------------
\* C11.

\* The role of the group at a place among the groups of elimination stage k.
GroupRole(k, place) ==
    CASE place = 1 -> IF IsDouble(k) THEN "winner-bracket" ELSE "single-bracket"
      [] place = 2 -> IF IsDouble(k) THEN "loser-bracket" ELSE "final-group"
      [] OTHER -> "final-group"

\* The groups of the elimination stages of the input, each with its place in
\* the order the group ids first occur among the matches of its stage.
PlacedGroups ==
    UNION {LET groups == InGroups(k)
           IN {[stage |-> k, group |-> groups[g], place |-> g, count |-> Len(groups),
                role |-> GroupRole(k, g)] : g \in 1..Len(groups)} :
           k \in {j \in InStageIds : IsElimination(j)}}

\* C11: the role of a group follows from its place in the first-occurrence
\* order of the group ids among the matches of its stage, not from the id: the
\* first group is the single or winner bracket, the second the consolation
\* final (single elimination) or the loser bracket (double elimination), the
\* third the grand final.  A double-elimination stage of two groups renders
\* the second as a loser bracket, renders no final, and asserts connectFinal
\* nowhere.
C11_RolesByPlace ==
    LET ms == InMatchSet
        groups == PlacedGroups
        placed == PlacedMatches
        in(pm) == CHOOSE m \in ms : m.id = pm.el.id
    IN /\ \A pm \in placed :
             \E g \in groups :
                /\ g.group = in(pm).group_id
                /\ pm.el.matchLocation = g.role
                /\ g.role = "final-group" =>
                      pm.el.label.text.finalType =
                          (IF IsDouble(g.stage) THEN "grand_final" ELSE "consolation_final")
                /\ g.role = "loser-bracket" => pm.el.connection.connectFinal = Undefined
                /\ g.role = "single-bracket" => pm.el.connection.connectFinal = Undefined
                /\ g.role = "winner-bracket" =>
                      pm.el.connection.connectFinal = (IF g.count >= 3 THEN "true" ELSE "false")
       /\ \A g \in groups :
             Completed(g.stage) => \E pm \in placed : in(pm).group_id = g.group

\* C11 witness: a call rendered to its end a double-elimination stage of two
\* groups whose first group has the larger id: the second group is a loser
\* bracket and the winner bracket is not connected to a final.
C11_Witness ==
    /\ pc = "done"
    /\ \E g1, g2 \in PlacedGroups :
          /\ g1.stage = g2.stage /\ IsDouble(g1.stage)
          /\ g1.place = 1 /\ g2.place = 2 /\ g1.count = 2
          /\ g1.group > g2.group
          /\ \E i \in BracketNodes :
                /\ root[i].group = g2.group
                /\ root[i].rounds[1].matches[1].matchLocation = "loser-bracket"
          /\ \E i \in BracketNodes :
                /\ root[i].group = g1.group
                /\ root[i].rounds[1].matches[1].connection.connectFinal = "false"

\* ---------------------------------------------------------------------------
\* C12.

\* The ids of the matches rendered in the round-robin containers of the
\* fragment.
RoundRobinMatchIds ==
    UNION {UNION {UNION {{root[i].groups[g].rounds[r].matches[n].id :
                             n \in 1..Len(root[i].groups[g].rounds[r].matches)} :
                         r \in 1..Len(root[i].groups[g].rounds)} :
                  g \in 1..Len(root[i].groups)} :
           i \in {j \in 1..Len(root) : root[j].kind = "round-robin"}}

\* The ids of all the matches rendered in the fragment.
RenderedMatchIds == {pm.el.id : pm \in PlacedMatches} \cup RoundRobinMatchIds

\* Every origin hint and origin abbreviation of a rendered match was computed
\* with the skipFirstRound setting of the match's own stage.
C12_OwnSetting ==
    LET ms == InMatchSet
        stages == InStages
        own(el) == stages[(CHOOSE m \in ms : m.id = el.id).stage_id].skipFirstRound = "true"
    IN \A pm \in PlacedMatches :
          /\ pm.el.originHint.fn = "getOriginHint" =>
                pm.el.originHint.skipFirstRound = own(pm.el)
          /\ \A o \in {pm.el.opponent1, pm.el.opponent2} :
                o.origin # None => o.origin.abbreviation.skipFirstRound = own(pm.el)

\* A step that processes a stage renders matches of that stage only.
C12_OwnMatches ==
    (pc = "stages" /\ pc' \in {"stages", "failed"}) =>
        LET ms == InMatchSet
        IN \A id \in RenderedMatchIds' \ RenderedMatchIds :
              (CHOOSE m \in ms : m.id = id).stage_id = stageIndex

\* C12: in every render call, after any earlier calls, the origin hints and
\* origin abbreviations of the matches of a stage use the stage's own
\* skipFirstRound setting (false when absent), never the value a stage
\* processed before left in the viewer, and a stage is rendered from the
\* matches of its own stage_id only.
C12_StageIsolation == []C12_OwnSetting /\ [][C12_OwnMatches]_vars

\* C12 witness: one call rendered a stage with skipFirstRound set and then a
\* stage without the setting, and an origin abbreviation of each was computed
\* with the stage's own value.
C12_Witness ==
    /\ pc = "done"
    /\ Len(InStages) = 2
    /\ InStages[1].skipFirstRound = "true"
    /\ InStages[2].skipFirstRound = "absent"
    /\ \E p1, p2 \in PlacedParticipants :
          /\ InMatch(p1.match.id).stage_id = 1
          /\ InMatch(p2.match.id).stage_id = 2
          /\ p1.el.origin # None /\ p1.el.origin.abbreviation.skipFirstRound = TRUE
          /\ p2.el.origin # None /\ p2.el.origin.abbreviation.skipFirstRound = FALSE
          /\ p2.match.originHint.fn = "getOriginHint"
          /\ p2.match.originHint.skipFirstRound = FALSE

====
